---- MODULE Spec2Model ----
(***************************************************************************)
(* Model of the Table abstraction of tablInspector (src/src/_tabltypes.py) *)
(* and of the row generators and traits it is used with.                   *)
(*                                                                         *)
(* A Python list [a0, ..., an] is the sequence <<a0, ..., an>>: the entry  *)
(* with Python index k is the entry k + 1 of the sequence.  The result of  *)
(* a call is a record: exc is "none" or the name of the exception raised,  *)
(* val is the value returned.                                              *)
(***************************************************************************)
EXTENDS Integers, Sequences, FiniteSets, TLC

\* T: the table; op, args, res: the last call, its arguments and its result;
\* cache: the rows held by the cache of the table's row generator, by row
\* index (followed where the rows are objects, elsewhere the rows are read
\* as values); file: the text of the table's source file
VARIABLES T, op, args, res, cache, file

vars == <<T, op, args, res, cache, file>>

(***************************************************************************)
(* Bounds of the model.                                                    *)
(***************************************************************************)
\* largest row index a client asks for
MaxN == 3
\* largest size (number of rows) a client asks for
MaxSize == 3
\* largest row index at which a test generator deviates from the unit diagonal
MaxZ == 2
\* largest shift of a sub-triangle root
MaxOff == 2
\* largest row index asked of a table of the repository
MaxGenN == 4
\* largest size of an inverse asked of a table of the repository
MaxInvSize == 4
\* largest length of a vector handed to dotproduct
MaxVec == 2

\* largest number of tokens before the OEIS section of a file that is
\* handed to AddAnumsToSrcfile
MaxPrefix == 6

(***************************************************************************)
(* Results of calls.                                                       *)
(***************************************************************************)
Ok(v) == [exc |-> "none", val |-> v]

Raise(e) == [exc |-> e, val |-> << >>]

(***************************************************************************)
(* Python list primitives.                                                 *)
(***************************************************************************)
\* r[k]: negative indices count from the end, anything else outside raises
PyIndex(r, k) ==
  IF 0 <= k /\ k < Len(r) THEN Ok(r[k + 1])
  ELSE IF k < 0 /\ -k <= Len(r) THEN Ok(r[Len(r) + k + 1])
  ELSE Raise("IndexError")

\* r[lo:hi] for lo, hi >= 0: the bounds are clamped to the list
PySlice(r, lo, hi) ==
  LET h == IF hi < Len(r) THEN hi ELSE Len(r)
  IN  IF lo >= h THEN << >> ELSE [i \in 1..(h - lo) |-> r[lo + i]]

\* a reversal that moves the first entry to the end and keeps the others
Reversed_Rotated(r) ==
  [i \in 1..Len(r) |-> IF i = Len(r) THEN r[1] ELSE r[i + 1]]

\* list(reversed(r))
Reversed(r) == [i \in 1..Len(r) |-> r[Len(r) + 1 - i]]

RECURSIVE SumSeq(_)
\* sum(r)
SumSeq(r) == IF r = << >> THEN 0 ELSE r[1] + SumSeq(Tail(r))

\* list(accumulate(r))
Accumulate(r) == [i \in 1..Len(r) |-> SumSeq(SubSeq(r, 1, i))]

RECURSIVE Pow(_, _)
\* x ** j for j >= 0 (0 ** 0 is 1)
Pow(x, j) == IF j = 0 THEN 1 ELSE x * Pow(x, j - 1)

RECURSIVE Concat(_)
\* the concatenation of a list of lists
Concat(rows) == IF rows = << >> THEN << >> ELSE rows[1] \o Concat(Tail(rows))

(***************************************************************************)
(* Row generators.                                                         *)
(***************************************************************************)
RECURSIVE schroederinv(_)
\* row n of the SchroederInv triangle; the loop runs k downwards, so that
\* row[k - 1] is still the entry of schroederinv(n - 1) when row[k] is updated
schroederinv(n) ==
  IF n = 0 THEN <<1>>
  ELSE IF n = 1 THEN <<0, 1>>
  ELSE LET arow == Append(schroederinv(n - 2), 1)
           row  == Append(schroederinv(n - 1), 1)
       IN  [i \in 1..(n + 1) |->
              IF 2 <= i /\ i <= n THEN row[i] + row[i - 1] + arow[i - 1]
              ELSE row[i]]

\* divisors of n, largest first
divisors(n) == LET D == {d \in 1..n : n % d = 0}
                   RECURSIVE Down(_)
                   Down(d) == IF d = 0 THEN << >>
                              ELSE IF d \in D THEN <<d>> \o Down(d - 1)
                              ELSE Down(d - 1)
               IN  Down(n)

\* floor division by a positive number, as Python's //
FloorDiv(a, b) == IF a >= 0 THEN a \div b ELSE -((-a + b - 1) \div b)

RECURSIVE PolyaT(_, _), PolyaH(_, _)
\* _h(n, k)
PolyaH(n, k) ==
  LET ds == divisors(n)
  IN  SumSeq([i \in 1..Len(ds) |-> ds[i] * PolyaT(ds[i], k)])

\* _T(n, k)
PolyaT(n, k) ==
  IF n = 1 THEN (IF k > 0 THEN 1 ELSE 0)
  ELSE FloorDiv(SumSeq([i \in 1..(n - 1) |-> PolyaT(i, k) * PolyaH(n - i, k - 1)]),
                n - 1)

\* the largest row index polyatreeacc computes
PolyaLimit == 200

\* row n of the PolyaTreeAcc triangle: the empty row above the limit
polyatreeacc(n) ==
  IF n > PolyaLimit THEN << >>
  ELSE [i \in 1..(n + 1) |-> PolyaT(n + 1, i)]

RECURSIVE binomial(_)
\* row n of the binomial triangle (Pascal's rule)
binomial(n) ==
  IF n = 0 THEN <<1>>
  ELSE LET r == binomial(n - 1)
       IN  [i \in 1..(n + 1) |-> IF i = 1 \/ i = n + 1 THEN 1 ELSE r[i - 1] + r[i]]

\* binomialinv without the signs
binomialinv_Unsigned(n) == binomial(n)

\* row n of the BinomialInv triangle
binomialinv(n) == [i \in 1..(n + 1) |-> Pow(-1, n - (i - 1)) * binomial(n)[i]]

\* row n of the CentralFactorial triangle: row[k + 1] = row[k] * (n*n - k*k)
centralfactorial(n) ==
  IF n = 0 THEN <<1>>
  ELSE LET r[k \in 0..n] == IF k = 0 THEN 1
                            ELSE r[k - 1] * (n * n - (k - 1) * (k - 1))
       IN  [i \in 1..(n + 1) |-> r[i - 1]]

RECURSIVE centralsetinv(_)
\* row n of the CentralSetInv triangle; k runs downwards, row[k - 1] is still
\* the entry of centralsetinv(n - 1)
centralsetinv(n) ==
  IF n = 0 THEN <<1>>
  ELSE IF n = 1 THEN <<0, 1>>
  ELSE LET row == Append(centralsetinv(n - 1), 1)
       IN  [i \in 1..(n + 1) |->
              IF 2 <= i /\ i <= n THEN (n - 1) * (n - 1) * row[i] + row[i - 1]
              ELSE row[i]]

RECURSIVE clp(_, _)
\* _clp(n, k)
clp(n, k) ==
  IF k < 0 \/ k > n THEN 0
  ELSE IF k = 0 \/ k = n THEN 1
  ELSE 2 * clp(n - 1, k) + clp(n - 1, k - 1) - 2 * clp(n - 2, k - 1)
         + clp(n - k - 1, k - 1) - clp(n - k - 2, k)

\* row n of the CompositionLP triangle
compositionlp(n) ==
  IF n = 0 THEN <<1>> ELSE [i \in 1..(n + 1) |-> clp(n - 1, i - 2)]

RECURSIVE delannoyinv(_)
\* row n of the DelannoyInv triangle; k runs downwards, row[k + 1] is the
\* entry already updated (row[n] is never updated)
delannoyinv(n) ==
  IF n = 0 THEN <<1>>
  ELSE LET d == delannoyinv(n - 1)
           r[k \in 0..n] == IF k = n THEN d[n]
                            ELSE IF k = 0 THEN SumSeq(d)
                            ELSE r[k + 1] + d[k] + d[k + 1]
       IN  [i \in 1..(n + 1) |-> r[i - 1]]

RECURSIVE dl(_, _)
\* _distlattices(n, k)
dl(n, k) ==
  IF k = 0 \/ n = 0 THEN 1
  ELSE SumSeq([i \in 1..(1 + FloorDiv(n - 1, 2)) |->
                 dl(2 * (i - 1), k - 1) * dl(n - 1 - 2 * (i - 1), k)])
         + dl(n, k - 1)

\* row n of the DistLattices triangle
distlattices(n) == [i \in 1..(n + 1) |-> dl(n - (i - 1), i - 1)]

RECURSIVE dyckpathsinv(_)
\* row n of the DyckPathsInv triangle
dyckpathsinv(n) ==
  IF n = 0 THEN <<1>>
  ELSE IF n = 1 THEN <<1, 1>>
  ELSE LET q == Append(dyckpathsinv(n - 2), 0)
           p == Append(dyckpathsinv(n - 1), 0)
       IN  [i \in 1..(n + 1) |->
              IF i = n + 1 THEN 1
              ELSE IF i = 1 THEN p[1]
              ELSE p[i - 1] + 2 * p[i] - q[i]]

RECURSIVE fallingfactorial(_)
\* fallingfactorial with k starting at 0: the list has one entry for each
\* entry of the row before, and its first entry is overwritten
fallingfactorial_FromZero(n) ==
  IF n = 0 THEN <<1>>
  ELSE LET r == fallingfactorial(n - 1)
           row == [i \in 1..Len(r) |-> n * r[i]]
       IN  [row EXCEPT ![1] = 1]

\* row n of the FallingFactorial triangle: k starts at -1, so that the list
\* has n + 1 entries, and the first one is then overwritten
fallingfactorial(n) ==
  IF n = 0 THEN <<1>>
  ELSE LET r == fallingfactorial(n - 1)
           row == [i \in 1..(n + 1) |-> n * PyIndex(r, i - 2).val]
       IN  [row EXCEPT ![1] = 1]

RECURSIVE lucasinv(_)
\* row n of the LucasInv triangle; k runs upwards, r[k + 1] is still the
\* entry of [1] + lucasinv(n - 1)
lucasinv(n) ==
  IF n = 0 THEN <<1>>
  ELSE LET r == <<1>> \o lucasinv(n - 1)
       IN  [i \in 1..(n + 1) |->
              IF 2 <= i /\ i <= n THEN r[i] + 2 * r[i + 1] ELSE r[i]]

RECURSIVE motzkininv(_)
\* row n of the MotzkinInv triangle; for k = 0 the index k - 1 is -1, the
\* last entry of r1, that is the 0 appended to it
motzkininv(n) ==
  IF n = 0 THEN <<1>>
  ELSE IF n = 1 THEN <<-1, 1>>
  ELSE LET r2 == Append(motzkininv(n - 2), 0)
           r1 == Append(motzkininv(n - 1), 0)
           r  == Append(motzkininv(n - 1), 1)
       IN  [i \in 1..(n + 1) |->
              IF i <= n THEN PyIndex(r1, i - 2).val - r2[i] - r1[i]
              ELSE r[i]]

RECURSIVE narayana2(_)
\* row n of the Narayana2 triangle; k runs downwards, b[k - 1] is still the
\* entry of narayana2(n - 1)
narayana2(n) ==
  IF n < 3 THEN <<(<<1>>), <<0, 1>>, <<0, 1, 1>>>>[n + 1]
  ELSE LET a == narayana2(n - 2) \o <<0, 0>>
           b == Append(narayana2(n - 1), 1)
       IN  [i \in 1..(n + 1) |->
              IF 3 <= i /\ i <= n
              THEN FloorDiv((b[i] + b[i - 1]) * (2 * n - 3)
                              - (a[i] - 2 * a[i - 1] + a[i - 2]) * (n - 3), n)
              ELSE b[i]]

RECURSIVE powers(_)
\* row n of the Powers triangle
powers(n) ==
  IF n = 0 THEN <<1>>
  ELSE LET lrow == powers(n - 1)
       IN  Append([i \in 1..n |-> (i - 1) * lrow[i]], 1)

\* row n of the RencontresInv triangle
rencontresinv(n) ==
  IF n = 0 THEN <<1>>
  ELSE Append([i \in 1..n |-> (n - (i - 1) - 1) * binomial(n)[i]], 1)

\* risingfactorial with the factors falling: row[k + 1] = row[k] * (n - k)
risingfactorial_Falling(n) ==
  IF n = 0 THEN <<1>>
  ELSE LET r[k \in 0..n] == IF k = 0 THEN 1
                            ELSE IF k = 1 THEN n
                            ELSE r[k - 1] * (n - (k - 1))
       IN  [i \in 1..(n + 1) |-> r[i - 1]]

\* row n of the RisingFactorial triangle: row[1] = n, row[k + 1] = row[k] * (n + k)
risingfactorial(n) ==
  IF n = 0 THEN <<1>>
  ELSE LET r[k \in 0..n] == IF k = 0 THEN 1
                            ELSE IF k = 1 THEN n
                            ELSE r[k - 1] * (n + k - 1)
       IN  [i \in 1..(n + 1) |-> r[i - 1]]

\* row n of the Sidi triangle
sidi(n) ==
  IF n = 0 THEN <<1>>
  ELSE [i \in 1..(n + 1) |-> Pow(-1, n - (i - 1)) * binomial(n)[i] * Pow(i - 1, n)]

RECURSIVE stirlingcycleb(_)
\* row n of the StirlingCycleB triangle; k runs downwards, row[k - 1] is still
\* the entry of stirlingcycleb(n - 1), and row[0] is multiplied last
stirlingcycleb(n) ==
  IF n = 0 THEN <<1>>
  ELSE LET row == Append(stirlingcycleb(n - 1), 1)
           m == 2 * n - 1
       IN  [i \in 1..(n + 1) |->
              IF i = 1 THEN m * row[1]
              ELSE IF i <= n THEN m * row[i] + row[i - 1]
              ELSE row[i]]

\* row n of the Template triangle
template(n) == IF n = 0 THEN <<0>> ELSE [i \in 1..(n + 1) |-> 0]

\* a test generator <<"syn", a, b, z, f>>: T(n, n) = 1 except T(z, z) = a,
\* T(n, k) = b * (k + 1) below the diagonal; with f = "short" row z lacks its
\* last entry, with f = "long" it has one entry too many
syngen(g, n) ==
  LET row == [i \in 1..(n + 1) |->
                IF i = n + 1 THEN (IF n = g[4] THEN g[2] ELSE 1)
                ELSE g[3] * i]
  IN  IF n = g[4] /\ g[5] = "short" THEN SubSeq(row, 1, n)
      ELSE IF n = g[4] /\ g[5] = "long" THEN Append(row, 7)
      ELSE row

\* the row generator named or built by the expression g, applied to n >= 0:
\* a generator of the repository, a test generator, or the generator that
\* RevTable (revgen), AltTable (altblgen) or Table.off (subgen) builds on g
RECURSIVE Gen(_, _)
Gen(g, n) ==
  CASE g[1] = "schroederinv" -> schroederinv(n)
    [] g[1] = "polyatreeacc" -> polyatreeacc(n)
    [] g[1] = "binomial" -> binomial(n)
    [] g[1] = "binomialinv" -> binomialinv(n)
    [] g[1] = "centralfactorial" -> centralfactorial(n)
    [] g[1] = "centralsetinv" -> centralsetinv(n)
    [] g[1] = "compositionlp" -> compositionlp(n)
    [] g[1] = "delannoyinv" -> delannoyinv(n)
    [] g[1] = "distlattices" -> distlattices(n)
    [] g[1] = "dyckpathsinv" -> dyckpathsinv(n)
    [] g[1] = "fallingfactorial" -> fallingfactorial(n)
    [] g[1] = "lucasinv" -> lucasinv(n)
    [] g[1] = "motzkininv" -> motzkininv(n)
    [] g[1] = "narayana2" -> narayana2(n)
    [] g[1] = "powers" -> powers(n)
    [] g[1] = "rencontresinv" -> rencontresinv(n)
    [] g[1] = "risingfactorial" -> risingfactorial(n)
    [] g[1] = "sidi" -> sidi(n)
    [] g[1] = "stirlingcycleb" -> stirlingcycleb(n)
    [] g[1] = "template" -> template(n)
    [] g[1] = "syn" -> syngen(g, n)
    [] g[1] = "rev" -> Reversed(Gen(g[2], n))
    [] g[1] = "alt" -> LET r == Gen(g[2], n)
                       IN  [i \in 1..Len(r) |-> Pow(-1, i - 1) * r[i]]
    [] g[1] = "off" -> PySlice(Gen(g[2], n + g[3]), g[4], g[3] + n + 1)

(***************************************************************************)
(* The exact inverter of a lower triangular matrix, given by its rows      *)
(* M[i] = <<M(i,1), ..., M(i,i)>>.  Fractions are pairs <<num, den>> in    *)
(* lowest terms with den > 0.                                              *)
(***************************************************************************)
Abs(a) == IF a < 0 THEN -a ELSE a

RECURSIVE Gcd(_, _)
Gcd(a, b) == IF b = 0 THEN a ELSE Gcd(b, a % b)

\* the fraction n / d, d # 0
Fraction(n, d) ==
  LET g == Gcd(Abs(n), Abs(d))
      s == IF d < 0 THEN -1 ELSE 1
  IN  <<(s * n) \div g, (s * d) \div g>>

FracAdd(p, q) == Fraction(p[1] * q[2] + q[1] * p[2], p[2] * q[2])

RECURSIVE FracSum(_)
FracSum(ps) == IF ps = << >> THEN <<0, 1>> ELSE FracAdd(ps[1], FracSum(Tail(ps)))

\* row i of the inverse by forward substitution, from the rows X before it
InvRow(M, X, i) ==
  [j \in 1..i |->
     IF j = i THEN Fraction(1, M[i][i])
     ELSE LET s == FracSum([k \in 1..(i - j) |->
                              Fraction(M[i][j + k - 1] * X[j + k - 1][j][1],
                                       X[j + k - 1][j][2])])
          IN  Fraction(-s[1], s[2] * M[i][i])]

RECURSIVE InvRows(_, _)
\* the rows of the exact inverse, or << >> when a diagonal entry is 0
InvRows(M, X) ==
  IF Len(X) = Len(M) THEN X
  ELSE IF M[Len(X) + 1][Len(X) + 1] = 0 THEN << >>
  ELSE InvRows(M, Append(X, InvRow(M, X, Len(X) + 1)))

\* InvertMatrix(M): the integer inverse, rows of length 1, 2, ..., or the
\* empty list when M is singular or its inverse is not integral
InvertMatrix(M) ==
  LET X == InvRows(M, << >>)
  IN  IF X = << >> THEN << >>
      ELSE IF \E i \in 1..Len(X) : \E j \in 1..i : X[i][j][2] # 1 THEN << >>
      ELSE [i \in 1..Len(X) |-> [j \in 1..i |-> X[i][j][1]]]

(***************************************************************************)
(* The class Table.  A table object is the record of its fields; gen is    *)
(* the expression of its row generator.                                    *)
(***************************************************************************)
\* Table.__init__
Table(gen, id, invid) ==
  [gen |-> gen, id |-> id, invid |-> invid, invQ |-> invid # ""]

\* T.row(n)
row(t, n) ==
  IF n < 0 THEN Raise("IndexError") ELSE Ok(Gen(t.gen, n))

\* self.row(n)[k]
Entry(t, n, k) ==
  LET r == row(t, n)
  IN  IF r.exc # "none" THEN r ELSE PyIndex(r.val, k)

\* val without its bounds test: a negative k then counts from the end of the row
val_Unchecked(t, n, k) == Entry(t, n, k)

\* T.val(n, k)
val(t, n, k) ==
  IF k > n \/ k < 0 \/ n < 0 THEN Raise("IndexError") ELSE Entry(t, n, k)

\* T(n, k)
call(t, n, k) ==
  IF k > n \/ k < 0 \/ n < 0 THEN Raise("IndexError") ELSE Entry(t, n, k)

\* T.tab(size)
tab(t, size) == Ok([n \in 1..size |-> Gen(t.gen, n - 1)])

\* [[self.row(n)[k] for k in range(n + 1)] for n in range(size)]
LowerRows(t, size) ==
  LET cells == [n \in 1..size |-> [k \in 1..n |-> Entry(t, n - 1, k - 1)]]
  IN  IF \E n \in 1..size : \E k \in 1..n : cells[n][k].exc # "none"
      THEN Raise("IndexError")
      ELSE Ok([n \in 1..size |-> [k \in 1..n |-> cells[n][k].val]])

\* T.mat(size)
mat(t, size) ==
  LET low == LowerRows(t, size)
  IN  IF low.exc # "none" THEN low
      ELSE Ok([n \in 1..size |->
                 [k \in 1..size |-> IF k <= n THEN low.val[n][k] ELSE 0]])

\* T.rev(n)
rev(t, n) ==
  LET r == row(t, n)
  IN  IF r.exc # "none" THEN r ELSE Ok(Reversed(r.val))

\* T.alt(n)
alt(t, n) ==
  LET r == row(t, n)
  IN  IF r.exc # "none" THEN r
      ELSE Ok([i \in 1..Len(r.val) |-> Pow(-1, i - 1) * r.val[i]])

\* T.acc(n)
acc(t, n) ==
  LET r == row(t, n)
  IN  IF r.exc # "none" THEN r ELSE Ok(Accumulate(r.val))

\* T.sum(n)
sum(t, n) ==
  LET r == row(t, n)
  IN  IF r.exc # "none" THEN r ELSE Ok(SumSeq(r.val))

\* poly with the coefficients taken in descending powers
poly_Descending(t, n, x) ==
  LET r == row(t, n)
  IN  IF r.exc # "none" THEN r
      ELSE Ok(SumSeq([i \in 1..Len(r.val) |-> r.val[i] * Pow(x, Len(r.val) - i)]))

\* T.poly(n, x)
poly(t, n, x) ==
  LET r == row(t, n)
  IN  IF r.exc # "none" THEN r
      ELSE Ok(SumSeq([i \in 1..Len(r.val) |-> r.val[i] * Pow(x, i - 1)]))

\* flat with range(n) in place of range(n + 1): the diagonal is left out
flat_NoDiagonal(t, size) ==
  LET low == LowerRows(t, size)
  IN  IF low.exc # "none" THEN low
      ELSE Ok(Concat([n \in 1..size |-> SubSeq(low.val[n], 1, n - 1)]))

\* T.flat(size)
flat(t, size) ==
  LET low == LowerRows(t, size)
  IN  IF low.exc # "none" THEN low ELSE Ok(Concat(low.val))

\* inv inverting the reversed rows, as invrev does
inv_OfReversed(t, size) ==
  IF ~t.invQ THEN [res |-> Ok(<< >>), invQ |-> t.invQ]
  ELSE LET M == LowerRows(t, size)
       IN  IF M.exc # "none" THEN [res |-> M, invQ |-> t.invQ]
           ELSE LET V == InvertMatrix([n \in 1..size |-> Reversed(M.val[n])])
                IN  IF V = << >> THEN [res |-> Ok(<< >>), invQ |-> FALSE]
                    ELSE [res |-> Ok(V), invQ |-> t.invQ]

\* inv without the early return, the flag recomputed by every call
inv_Recomputed(t, size) ==
  LET M == LowerRows(t, size)
  IN  IF M.exc # "none" THEN [res |-> M, invQ |-> t.invQ]
      ELSE LET V == InvertMatrix(M.val)
           IN  [res |-> Ok(V), invQ |-> V # << >>]

\* inv raising on a failed inversion instead of returning []
inv_Raising(t, size) ==
  IF ~t.invQ THEN [res |-> Ok(<< >>), invQ |-> t.invQ]
  ELSE LET M == LowerRows(t, size)
       IN  IF M.exc # "none" THEN [res |-> M, invQ |-> t.invQ]
           ELSE LET V == InvertMatrix(M.val)
                IN  IF V = << >> THEN [res |-> Raise("ValueError"), invQ |-> FALSE]
                    ELSE [res |-> Ok(V), invQ |-> t.invQ]

\* T.inv(size): the result and the value of self.invQ after the call
inv(t, size) ==
  IF ~t.invQ THEN [res |-> Ok(<< >>), invQ |-> t.invQ]
  ELSE LET M == LowerRows(t, size)
       IN  IF M.exc # "none" THEN [res |-> M, invQ |-> t.invQ]
           ELSE LET V == InvertMatrix(M.val)
                IN  IF V = << >> THEN [res |-> Ok(<< >>), invQ |-> FALSE]
                    ELSE [res |-> Ok(V), invQ |-> t.invQ]

\* revinv returning the rows of the inverse as they are
revinv_NotReversed(t, size) == inv(t, size)

\* T.revinv(size): the result and the value of self.invQ after the call
revinv(t, size) ==
  LET V == inv(t, size)
  IN  IF V.res.exc # "none" \/ V.res.val = << >> THEN V
      ELSE [res |-> Ok([n \in 1..size |-> Reversed(V.res.val[n])]),
            invQ |-> V.invQ]

\* invrev returning [] when the flag is down, as inv does
invrev_Flagged(t, size) ==
  IF ~t.invQ THEN Ok(<< >>)
  ELSE Ok(InvertMatrix([n \in 1..size |-> Reversed(Gen(t.gen, n - 1))]))

\* T.invrev(size)
invrev(t, size) ==
  Ok(InvertMatrix([n \in 1..size |-> Reversed(Gen(t.gen, n - 1))]))

\* T.off(N, K): the expression of subgen
off(t, N, K) == <<"off", t.gen, N, K>>

\* RevTable(T)
RevTable(t) == Table(<<"rev", t.gen>>, t.id \o ":Rev", "")

\* AltTable(T)
AltTable(t) == Table(<<"alt", t.gen>>, t.id \o ":Alt", "")

\* SubTable(T, N, K)
SubTable(t, N, K) == Table(off(t, N, K), t.id \o ":Off", "")

\* the trait Triangle(T, size)
Triangle(t, size) == flat(t, size)

(***************************************************************************)
(* Further methods of Table: anti-diagonals, differences, derivatives, the *)
(* sub-triangle with offset (1, 1) and transforms.                         *)
(***************************************************************************)
\* a list comprehension over calls: the first exception raised, or the list
\* of the values
Collect(cells) ==
  LET bad == {i \in 1..Len(cells) : cells[i].exc # "none"}
  IN  IF bad = {} THEN Ok([i \in 1..Len(cells) |-> cells[i].val])
      ELSE Raise(cells[CHOOSE i \in bad : \A j \in bad : i <= j].exc)

\* antidiag with range((n + 1) // 2): the last entry is left out for even n
antidiag_Half(t, n) ==
  Collect([i \in 1..FloorDiv(n + 1, 2) |-> Entry(t, n - (i - 1), i - 1)])

\* antidiag with range((n + 3) // 2): one read beyond the diagonal
antidiag_Long(t, n) ==
  Collect([i \in 1..FloorDiv(n + 3, 2) |-> Entry(t, n - (i - 1), i - 1)])

\* T.antidiag(n)
antidiag(t, n) ==
  Collect([i \in 1..FloorDiv(n + 2, 2) |-> Entry(t, n - (i - 1), i - 1)])

\* more_itertools.difference(r): the first entry, then the first differences
difference(r) == [i \in 1..Len(r) |-> IF i = 1 THEN r[1] ELSE r[i] - r[i - 1]]

\* diff returning the differences of neighbours only
diff_NoInitial(t, n) ==
  LET r == row(t, n)
  IN  IF r.exc # "none" THEN r
      ELSE Ok([i \in 1..(Len(r.val) - 1) |-> r.val[i + 1] - r.val[i]])

\* T.diff(n)
diff(t, n) ==
  LET r == row(t, n)
  IN  IF r.exc # "none" THEN r ELSE Ok(difference(r.val))

\* der without the slice: the product with the power 0 is kept
der_Unsliced(t, n) ==
  IF n = 0 THEN Ok(<<0>>)
  ELSE LET coeffs == row(t, n)
       IN  IF coeffs.exc # "none" THEN coeffs
           ELSE Ok([i \in 1..Len(coeffs.val) |-> coeffs.val[i] * (i - 1)])

\* T.der(n): map stops at the shorter of coeffs and powers
der(t, n) ==
  IF n = 0 THEN Ok(<<0>>)
  ELSE LET coeffs == row(t, n)
       IN  IF coeffs.exc # "none" THEN coeffs
           ELSE LET m == IF Len(coeffs.val) < n + 1 THEN Len(coeffs.val) ELSE n + 1
                    prods == [i \in 1..m |-> coeffs.val[i] * (i - 1)]
                IN  Ok(PySlice(prods, 1, n + 1))

\* T.rev11(n)
rev11(t, n) == Ok(Reversed(Gen(off(t, 1, 1), n)))

\* inv11 returning [] when the flag is down, as inv does
inv11_Flagged(t, size) ==
  IF ~t.invQ THEN Ok(<< >>)
  ELSE Ok(InvertMatrix([n \in 1..size |-> Gen(off(t, 1, 1), n - 1)]))

\* T.inv11(size)
inv11(t, size) == Ok(InvertMatrix([n \in 1..size |-> Gen(off(t, 1, 1), n - 1)]))

\* T.revinv11(size)
revinv11(t, size) ==
  LET M == inv11(t, size).val
  IN  Ok([n \in 1..Len(M) |-> Reversed(M[n])])

\* T.invrev11(size)
invrev11(t, size) ==
  Ok(InvertMatrix([n \in 1..size |-> Reversed(Gen(off(t, 1, 1), n - 1))]))

\* the sequences with Nat1 starting at 0, as Nat0 does
SeqAt_FromZero(s, k) == IF s = "Sqrs" THEN k * k ELSE k

\* the sequences s handed to trans by the traits
SeqAt(s, k) ==
  CASE s = "Nat0" -> k
    [] s = "Nat1" -> k + 1
    [] s = "Sqrs" -> k * k

\* T.trans(s, size)
trans(t, s, size) ==
  Collect([n \in 1..size |->
             LET cells == Collect([k \in 1..n |-> Entry(t, n - 1, k - 1)])
             IN  IF cells.exc # "none" THEN cells
                 ELSE Ok(SumSeq([k \in 1..n |-> cells.val[k] * SeqAt(s, k - 1)]))])

(***************************************************************************)
(* The tables a client works with, and the arguments it passes.            *)
(***************************************************************************)
\* test generators whose rows have the right length
SynValid ==
  {<<"syn", a, b, z, "ok">> : a \in {-1, 0, 2}, b \in {0, 1}, z \in 0..MaxZ}
    \cup {<<"syn", 1, b, 0, "ok">> : b \in {0, 1}}

\* test generators with one row of the wrong length
SynFaulty ==
  {<<"syn", 1, b, z, f>> : b \in {0, 1}, z \in 0..MaxZ, f \in {"short", "long"}}

\* the tables as constructed: the two tables of the repository with their own
\* metadata, the test tables with and without an inverse id
Tables ==
  {Table(<<"schroederinv">>, "SchroederInv", ""),
   Table(<<"polyatreeacc">>, "PolyaTreeAcc", "")}
    \cup {Table(g, "Syn", i) : g \in SynValid \cup SynFaulty, i \in {"", "A000000"}}

\* row indices: one below the triangle up to MaxN, and for polyatreeacc the
\* first row index above its limit
RowArgs(t) ==
  (-1..MaxN) \cup (IF t.gen[1] = "polyatreeacc" THEN {PolyaLimit + 1} ELSE {})

ColArgs == -1..(MaxN + 1)

SizeArgs == 0..MaxSize

XArgs == {-1, 0, 1, 2}

\* every row the table returns for n < size has n + 1 entries
ValidRows(t, size) == \A n \in 0..(size - 1) : Len(Gen(t.gen, n)) = n + 1

Init ==
  /\ T \in Tables
  /\ op = "init"
  /\ args = << >>
  /\ res = Ok(<< >>)
  /\ cache = << >>
  /\ file = << >>

\* a call that leaves the table as it is
Pure(name, a, r) ==
  /\ op' = name
  /\ args' = a
  /\ res' = r
  /\ UNCHANGED <<T, cache, file>>

\* a call that may write self.invQ
Flagged(name, a, r) ==
  /\ op' = name
  /\ args' = a
  /\ res' = r.res
  /\ T' = [T EXCEPT !.invQ = r.invQ]
  /\ UNCHANGED <<cache, file>>

CallRow == \E n \in RowArgs(T) : Pure("row", <<n>>, row(T, n))

CallVal == \E n \in -1..MaxN, k \in ColArgs : Pure("val", <<n, k>>, val(T, n, k))

CallCall == \E n \in -1..MaxN, k \in ColArgs : Pure("call", <<n, k>>, call(T, n, k))

CallTab == \E size \in SizeArgs : Pure("tab", <<size>>, tab(T, size))

CallMat == \E size \in SizeArgs : Pure("mat", <<size>>, mat(T, size))

CallRev == \E n \in RowArgs(T) : Pure("rev", <<n>>, rev(T, n))

CallAlt == \E n \in RowArgs(T) : Pure("alt", <<n>>, alt(T, n))

CallAcc == \E n \in RowArgs(T) : Pure("acc", <<n>>, acc(T, n))

CallSum == \E n \in RowArgs(T) : Pure("sum", <<n>>, sum(T, n))

CallPoly == \E n \in RowArgs(T), x \in XArgs : Pure("poly", <<n, x>>, poly(T, n, x))

CallFlat == \E size \in SizeArgs : Pure("flat", <<size>>, flat(T, size))

CallTriangle == \E size \in SizeArgs : Pure("Triangle", <<size>>, Triangle(T, size))

CallInv == \E size \in SizeArgs : Flagged("inv", <<size>>, inv(T, size))

CallRevinv == \E size \in SizeArgs : Flagged("revinv", <<size>>, revinv(T, size))

\* the inverter is given the reversed rows as they are: the call is made on
\* tables whose rows form a triangle
CallInvrev ==
  \E size \in SizeArgs :
    /\ ValidRows(T, size)
    /\ Pure("invrev", <<size>>, invrev(T, size))

Next ==
  \/ CallRow
  \/ CallVal
  \/ CallCall
  \/ CallTab
  \/ CallMat
  \/ CallRev
  \/ CallAlt
  \/ CallAcc
  \/ CallSum
  \/ CallPoly
  \/ CallFlat
  \/ CallTriangle
  \/ CallInv
  \/ CallRevinv
  \/ CallInvrev

Spec == Init /\ [][Next]_vars

(***************************************************************************)
(* Derived tables: a client builds RevTable, AltTable and SubTable of a    *)
(* table (and of the table so built) and reads rows of the result.         *)
(***************************************************************************)
\* the generator is one of the repository or a test generator
IsBase(g) == g[1] \notin {"rev", "alt", "off"}

\* roots (N, K) inside the triangle
Roots == {nk \in (0..MaxOff) \X (0..MaxOff) : nk[2] <= nk[1]}

MakeRevTable ==
  /\ IsBase(T.gen) \/ (T.gen[1] = "rev" /\ IsBase(T.gen[2]))
  /\ T' = RevTable(T)
  /\ op' = "RevTable"
  /\ args' = << >>
  /\ res' = Ok(<< >>)
  /\ UNCHANGED <<cache, file>>

MakeAltTable ==
  /\ IsBase(T.gen)
  /\ T' = AltTable(T)
  /\ op' = "AltTable"
  /\ args' = << >>
  /\ res' = Ok(<< >>)
  /\ UNCHANGED <<cache, file>>

MakeSubTable ==
  \E nk \in Roots :
    /\ IsBase(T.gen) \/ (T.gen[1] = "off" /\ IsBase(T.gen[2]))
    /\ T' = SubTable(T, nk[1], nk[2])
    /\ op' = "SubTable"
    /\ args' = nk
    /\ res' = Ok(<< >>)
    /\ UNCHANGED <<cache, file>>

ReadRow == \E n \in 0..MaxN : Pure("row", <<n>>, row(T, n))

ReadRev == \E n \in 0..MaxN : Pure("rev", <<n>>, rev(T, n))

ReadInv == \E size \in SizeArgs : Flagged("inv", <<size>>, inv(T, size))

NextDerived ==
  \/ MakeRevTable
  \/ MakeAltTable
  \/ MakeSubTable
  \/ ReadRow
  \/ ReadRev
  \/ ReadInv

SpecDerived == Init /\ [][NextDerived]_vars

(***************************************************************************)
(* The tables of the repository, and a client that reads rows, sums,       *)
(* polynomials, differences, derivatives, anti-diagonals and inverses of   *)
(* them and of the test tables.                                            *)
(***************************************************************************)
\* the binomial triangle, declared invertible
Binomial == Table(<<"binomial">>, "Binomial", "A130595")

\* the tables built on the row generators of the repository, each with the
\* id and the inverse id its file gives it
RepoTables ==
  {Table(<<"binomialinv">>, "BinomialInv", "A007318"),
   Table(<<"centralfactorial">>, "CentralFactorial", ""),
   Table(<<"centralsetinv">>, "CentralSetInv", "A269945"),
   Table(<<"compositionlp">>, "CompositionLP", "A000000"),
   Table(<<"delannoyinv">>, "DelannoyInv", "A008288"),
   Table(<<"distlattices">>, "DistLattices", "A000000"),
   Table(<<"dyckpathsinv">>, "DyckPathsInv", "A039599"),
   Table(<<"fallingfactorial">>, "FallingFactorial", ""),
   Table(<<"lucasinv">>, "LucasInv", "A029635"),
   Table(<<"motzkininv">>, "MotzkinInv", "A064189"),
   Table(<<"narayana2">>, "Narayana2", "A000000"),
   Table(<<"polyatreeacc">>, "PolyaTreeAcc", ""),
   Table(<<"powers">>, "Powers", "A000000"),
   Table(<<"rencontresinv">>, "RencontresInv", "A008290"),
   Table(<<"risingfactorial">>, "RisingFactorial", ""),
   Table(<<"schroederinv">>, "SchroederInv", ""),
   Table(<<"sidi">>, "Sidi", ""),
   Table(<<"stirlingcycleb">>, "StirlingCycleB", "A000000"),
   Table(<<"template">>, "Template", "")}

InitRows ==
  /\ T \in RepoTables \cup {Binomial} \cup Tables
  /\ op = "init"
  /\ args = << >>
  /\ res = Ok(<< >>)
  /\ cache = << >>
  /\ file = << >>

\* row indices asked of these tables: one below the triangle up to MaxGenN
GenArgs == -1..MaxGenN

AskRow == \E n \in GenArgs : Pure("row", <<n>>, row(T, n))

AskRev == \E n \in GenArgs : Pure("rev", <<n>>, rev(T, n))

AskSum == \E n \in GenArgs : Pure("sum", <<n>>, sum(T, n))

AskPoly == \E n \in GenArgs, x \in XArgs : Pure("poly", <<n, x>>, poly(T, n, x))

AskAcc == \E n \in GenArgs : Pure("acc", <<n>>, acc(T, n))

AskDiff == \E n \in GenArgs : Pure("diff", <<n>>, diff(T, n))

AskDer == \E n \in GenArgs : Pure("der", <<n>>, der(T, n))

AskAntidiag == \E n \in GenArgs : Pure("antidiag", <<n>>, antidiag(T, n))

AskInv == \E size \in 0..MaxInvSize : Flagged("inv", <<size>>, inv(T, size))

NextRows ==
  \/ AskRow
  \/ AskRev
  \/ AskSum
  \/ AskPoly
  \/ AskAcc
  \/ AskDiff
  \/ AskDer
  \/ AskAntidiag
  \/ AskInv

SpecRows == InitRows /\ [][NextRows]_vars

(***************************************************************************)
(* The traits (src/src/_tabltraits.py): a trait maps a table and a size to *)
(* a list of integers.                                                     *)
(***************************************************************************)
\* list(flatten([... for n in range(size)]))
Flat(cells) ==
  LET c == Collect(cells)
  IN  IF c.exc # "none" THEN c ELSE Ok(Concat(c.val))

\* r[start::2] for start 0 or 1, r the result of a call
EveryOther(r, start) ==
  IF r.exc # "none" THEN r
  ELSE Ok([i \in 1..((Len(r.val) - start + 1) \div 2) |->
             r.val[start + 2 * (i - 1) + 1]])

\* list(accumulate(r)), r the result of a call
Accumulated(r) == IF r.exc # "none" THEN r ELSE Ok(Accumulate(r.val))

\* [sum(...) for n in range(size)]
SumOver(cells) ==
  LET c == Collect(cells)
  IN  IF c.exc # "none" THEN c ELSE Ok([n \in 1..Len(c.val) |-> SumSeq(c.val[n])])

\* PolyFrac(row, x), row the result of a call: the coefficients are taken in
\* descending powers
PolyFrac(r, x) ==
  IF r.exc # "none" THEN r
  ELSE LET n == Len(r.val) - 1
       IN  Ok(SumSeq([i \in 1..Len(r.val) |-> r.val[i] * Pow(x, n - (i - 1))]))

\* dotproduct(vec, tor): map stops at the end of the shorter vector
dotproduct(vec, tor) ==
  LET m == IF Len(vec) < Len(tor) THEN Len(vec) ELSE Len(tor)
  IN  Ok(SumSeq([i \in 1..m |-> vec[i] * tor[i]]))

\* [dotproduct(B.row(n), T.row(n)) for n in range(size)], B the triangle with
\* the row generator b
Conv(b, t, size) ==
  Collect([n \in 1..size |->
             LET r == row(t, n - 1)
             IN  IF r.exc # "none" THEN r ELSE dotproduct(Gen(b, n - 1), r.val)])

\* the trait BinConv
BinConv(t, size) == Conv(<<"binomial">>, t, size)

\* the trait InvBinConv
InvBinConv(t, size) == Conv(<<"binomialinv">>, t, size)

\* the forward traits that have a Rev_ counterpart in AllTraits
TraitNames ==
  {"Toff11", "Trev11", "Tinv11", "Talt", "Tacc", "Tder",
   "Tantidiag", "PolyRow1", "PolyRow2", "PolyRow3", "PolyCol3", "PolyDiag",
   "EvenSum", "OddSum", "AccRevSum", "AntiDSum", "ColMiddle", "CentralO",
   "PosHalf", "NegHalf", "TransNat0", "TransNat1", "TransSqrs"}

\* the forward trait called name, applied to t and size
Trait(name, t, size) ==
  CASE name = "Toff11" ->
         flat(Table(off(t, 1, 1), t.id \o "off11", ""), size)
    [] name = "Trev11" ->
         Flat([n \in 1..size |-> rev11(t, n - 1)])
    [] name = "Tinv11" ->
         Ok(Concat(inv11(t, size).val))
    [] name = "Talt" ->
         Flat([n \in 1..size |-> alt(t, n - 1)])
    [] name = "Tacc" ->
         Flat([n \in 1..size |-> acc(t, n - 1)])
    [] name = "Tder" ->
         Flat([n \in 1..size |-> der(t, n - 1)])
    [] name = "Tantidiag" ->
         Flat([n \in 1..size |-> antidiag(t, n - 1)])
    [] name = "PolyRow1" ->
         Collect([x \in 1..size |-> poly(t, 1, x - 1)])
    [] name = "PolyRow2" ->
         Collect([x \in 1..size |-> poly(t, 2, x - 1)])
    [] name = "PolyRow3" ->
         Collect([x \in 1..size |-> poly(t, 3, x - 1)])
    [] name = "PolyCol3" ->
         Collect([x \in 1..size |-> poly(t, x - 1, 3)])
    [] name = "PolyDiag" ->
         Collect([n \in 1..size |-> poly(t, n - 1, n - 1)])
    [] name = "EvenSum" ->
         SumOver([n \in 1..size |-> EveryOther(row(t, n - 1), 0)])
    [] name = "OddSum" ->
         SumOver([n \in 1..size |-> EveryOther(row(t, n - 1), 1)])
    [] name = "AccRevSum" ->
         SumOver([n \in 1..size |-> Accumulated(rev(t, n - 1))])
    [] name = "AntiDSum" ->
         SumOver([n \in 1..size |-> antidiag(t, n - 1)])
    [] name = "ColMiddle" ->
         Collect([n \in 1..size |-> call(t, n - 1, (n - 1) \div 2)])
    [] name = "CentralO" ->
         Collect([n \in 1..size |-> call(t, 2 * (n - 1) + 1, n - 1)])
    [] name = "PosHalf" ->
         Collect([n \in 1..size |-> PolyFrac(row(t, n - 1), 2)])
    [] name = "NegHalf" ->
         Collect([n \in 1..size |-> PolyFrac(row(t, n - 1), -2)])
    [] name = "TransNat0" ->
         trans(t, "Nat0", size)
    [] name = "TransNat1" ->
         trans(t, "Nat1", size)
    [] name = "TransSqrs" ->
         trans(t, "Sqrs", size)

\* the Rev_ traits without the reversal of the table
RevTrait_Forward(name, t, size) == Trait(name, t, size)

\* the trait called Rev_ name, applied to t and size; Rev_PosHalf and
\* Rev_NegHalf read t.rev(n), the others work on TT = RevTable(t)
RevTrait(name, t, size) ==
  LET TT == RevTable(t)
  IN  CASE name = "Toff11" ->
             flat(Table(off(TT, 1, 1), TT.id \o "off11", ""), size)
        [] name = "Trev11" ->
             Flat([n \in 1..size |-> rev11(TT, n - 1)])
        [] name = "Tinv11" ->
             Ok(Concat(inv11(TT, size).val))
        [] name = "Talt" ->
             Flat([n \in 1..size |-> alt(TT, n - 1)])
        [] name = "Tacc" ->
             Flat([n \in 1..size |-> acc(TT, n - 1)])
        [] name = "Tder" ->
             Flat([n \in 1..size |-> der(TT, n - 1)])
        [] name = "Tantidiag" ->
             Flat([n \in 1..size |-> antidiag(TT, n - 1)])
        [] name = "PolyRow1" ->
             Collect([x \in 1..size |-> poly(TT, 1, x - 1)])
        [] name = "PolyRow2" ->
             Collect([x \in 1..size |-> poly(TT, 2, x - 1)])
        [] name = "PolyRow3" ->
             Collect([x \in 1..size |-> poly(TT, 3, x - 1)])
        [] name = "PolyCol3" ->
             Collect([x \in 1..size |-> poly(TT, x - 1, 3)])
        [] name = "PolyDiag" ->
             Collect([n \in 1..size |-> poly(TT, n - 1, n - 1)])
        [] name = "EvenSum" ->
             SumOver([n \in 1..size |-> EveryOther(row(TT, n - 1), 0)])
        [] name = "OddSum" ->
             SumOver([n \in 1..size |-> EveryOther(row(TT, n - 1), 1)])
        [] name = "AccRevSum" ->
             SumOver([n \in 1..size |-> Accumulated(rev(TT, n - 1))])
        [] name = "AntiDSum" ->
             SumOver([n \in 1..size |-> antidiag(TT, n - 1)])
        [] name = "ColMiddle" ->
             Collect([n \in 1..size |-> call(TT, n - 1, (n - 1) \div 2)])
        [] name = "CentralO" ->
             Collect([n \in 1..size |-> call(TT, 2 * (n - 1) + 1, n - 1)])
        [] name = "PosHalf" ->
             Collect([n \in 1..size |-> PolyFrac(rev(t, n - 1), 2)])
        [] name = "NegHalf" ->
             Collect([n \in 1..size |-> PolyFrac(rev(t, n - 1), -2)])
        [] name = "TransNat0" ->
             trans(TT, "Nat0", size)
        [] name = "TransNat1" ->
             trans(TT, "Nat1", size)
        [] name = "TransSqrs" ->
             trans(TT, "Sqrs", size)

\* the rows n < size of the sub-triangle with offset (1, 1) reach the diagonal
Cuts11(t, size) == \A n \in 0..(size - 1) : Len(Gen(off(t, 1, 1), n)) >= n + 1

\* a forward trait is called; the inverter is given the rows as they are, so
\* Tinv11 is called on tables whose rows reach the diagonal
CallTrait ==
  \E name \in TraitNames, size \in SizeArgs :
    /\ name = "Tinv11" => Cuts11(T, size)
    /\ Pure(name, <<size>>, Trait(name, T, size))

\* a Rev_ trait is called
CallRevTrait ==
  \E name \in TraitNames, size \in SizeArgs :
    /\ name = "Tinv11" => Cuts11(RevTable(T), size)
    /\ Pure("Rev_" \o name, <<size>>, RevTrait(name, T, size))

CallBinConv == \E size \in SizeArgs : Pure("BinConv", <<size>>, BinConv(T, size))

CallInvBinConv ==
  \E size \in SizeArgs : Pure("InvBinConv", <<size>>, InvBinConv(T, size))

\* the vectors a caller hands to dotproduct
Vectors ==
  UNION {[1..m -> {-1, 2}] : m \in 0..MaxVec}

CallDotproduct ==
  \E vec \in Vectors, tor \in Vectors :
    Pure("dotproduct", <<vec, tor>>, dotproduct(vec, tor))

NextTraits ==
  \/ CallTrait
  \/ CallRevTrait

\* the tables the traits are applied to: the test tables (no trait reads
\* invid) and the tables of the repository, but for CentralFactorial, whose
\* row 2 * MaxSize + 1, read by CentralO, has entries beyond 2^31 when MaxSize
\* is 4
TraitTables ==
  {t \in RepoTables : t.id # "CentralFactorial"}
    \cup {Table(g, "Syn", "") : g \in SynValid \cup SynFaulty}

InitTraits ==
  /\ T \in TraitTables
  /\ op = "init"
  /\ args = << >>
  /\ res = Ok(<< >>)
  /\ cache = << >>
  /\ file = << >>

SpecTraits == InitTraits /\ [][NextTraits]_vars

\* the convolutions with the binomial triangle and the dot product they use
NextConv ==
  \/ CallBinConv
  \/ CallInvBinConv
  \/ CallDotproduct

SpecConv == InitTraits /\ [][NextConv]_vars

(***************************************************************************)
(* A client that asks a table for its inverses: inv, which goes through    *)
(* the flag invQ, and the inverses of the reversed rows and of the         *)
(* sub-triangle with offset (1, 1).  The inverter is given the rows as     *)
(* they are, so these are asked of rows that reach the diagonal.           *)
(***************************************************************************)
TakeInv == \E size \in SizeArgs : Flagged("inv", <<size>>, inv(T, size))

TakeInvrev ==
  \E size \in SizeArgs :
    /\ ValidRows(T, size)
    /\ Pure("invrev", <<size>>, invrev(T, size))

TakeInv11 ==
  \E size \in SizeArgs :
    /\ Cuts11(T, size)
    /\ Pure("inv11", <<size>>, inv11(T, size))

TakeRevinv11 ==
  \E size \in SizeArgs :
    /\ Cuts11(T, size)
    /\ Pure("revinv11", <<size>>, revinv11(T, size))

TakeInvrev11 ==
  \E size \in SizeArgs :
    /\ Cuts11(T, size)
    /\ Pure("invrev11", <<size>>, invrev11(T, size))

NextInv ==
  \/ TakeInv
  \/ TakeInvrev
  \/ TakeInv11
  \/ TakeRevinv11
  \/ TakeInvrev11

SpecInv == InitRows /\ [][NextInv]_vars

(***************************************************************************)
(* The calls a row generator makes.  A frame is a function of the          *)
(* repository with its arguments: op is the function, args its arguments;  *)
(* a step enters one of the calls that the body of the frame makes, and    *)
(* res counts the frames entered so far (the depth of the call).           *)
(***************************************************************************)
\* the calls made by _clp(n, k)
clp_Calls(n, k) ==
  IF k < 0 \/ k > n \/ k = 0 \/ k = n THEN {}
  ELSE {<<"_clp", <<n - 1, k>>>>, <<"_clp", <<n - 1, k - 1>>>>,
        <<"_clp", <<n - 2, k - 1>>>>, <<"_clp", <<n - k - 1, k - 1>>>>,
        <<"_clp", <<n - k - 2, k>>>>}

\* _distlattices calling itself on (n - 2 * j, k): for j = 0 the same pair
dl_Calls_SameRow(n, k) ==
  IF k = 0 \/ n = 0 THEN {}
  ELSE {<<"_distlattices", <<2 * j, k - 1>>>> : j \in 0..FloorDiv(n - 1, 2)}
         \cup {<<"_distlattices", <<n - 2 * j, k>>>> : j \in 0..FloorDiv(n - 1, 2)}
         \cup {<<"_distlattices", <<n, k - 1>>>>}

\* the calls made by _distlattices(n, k)
dl_Calls(n, k) ==
  IF k = 0 \/ n = 0 THEN {}
  ELSE {<<"_distlattices", <<2 * j, k - 1>>>> : j \in 0..FloorDiv(n - 1, 2)}
         \cup {<<"_distlattices", <<n - 1 - 2 * j, k>>>> : j \in 0..FloorDiv(n - 1, 2)}
         \cup {<<"_distlattices", <<n, k - 1>>>>}

\* the calls made by _T(n, k)
PolyaT_Calls(n, k) ==
  IF n = 1 THEN {}
  ELSE {<<"_T", <<i, k>>>> : i \in 1..(n - 1)}
         \cup {<<"_h", <<n - i, k - 1>>>> : i \in 1..(n - 1)}

\* the calls made by _h(n, k)
PolyaH_Calls(n, k) ==
  {<<"_T", <<divisors(n)[i], k>>>> : i \in 1..Len(divisors(n))}

\* the calls made by the body of the function f applied to the arguments a
Callees(f, a) ==
  LET n == a[1]
      Self(S) == {<<f, <<m>>>> : m \in S}
  IN  CASE f = "_clp" -> clp_Calls(a[1], a[2])
        [] f = "_distlattices" -> dl_Calls(a[1], a[2])
        [] f = "_T" -> PolyaT_Calls(a[1], a[2])
        [] f = "_h" -> PolyaH_Calls(a[1], a[2])
        [] f = "compositionlp" ->
             IF n = 0 THEN {} ELSE {<<"_clp", <<n - 1, k - 1>>>> : k \in 0..n}
        [] f = "distlattices" -> {<<"_distlattices", <<n - k, k>>>> : k \in 0..n}
        [] f = "polyatreeacc" ->
             IF n > PolyaLimit THEN {} ELSE {<<"_T", <<n + 1, k + 1>>>> : k \in 0..n}
        [] f = "binomial" -> IF n = 0 THEN {} ELSE Self({n - 1})
        [] f = "binomialinv" -> {<<"binomial", <<n>>>>}
        [] f \in {"rencontresinv", "sidi"} ->
             IF n = 0 THEN {} ELSE {<<"binomial", <<n>>>>}
        [] f \in {"centralfactorial", "risingfactorial", "template"} -> {}
        [] f \in {"delannoyinv", "fallingfactorial", "lucasinv", "powers",
                  "stirlingcycleb"} ->
             IF n = 0 THEN {} ELSE Self({n - 1})
        [] f \in {"centralsetinv", "dyckpathsinv", "motzkininv", "schroederinv"} ->
             IF n < 2 THEN {} ELSE Self(IF f = "centralsetinv" THEN {n - 1}
                                        ELSE {n - 2, n - 1})
        [] f = "narayana2" -> IF n < 3 THEN {} ELSE Self({n - 2, n - 1})

\* a table of the repository is asked for row n: the frame of its generator
InitCalls ==
  /\ T \in RepoTables
  /\ op = T.gen[1]
  /\ args \in {<<n>> : n \in 0..MaxGenN}
  /\ res = Ok(0)
  /\ cache = << >>
  /\ file = << >>

\* the frame makes one of its calls
EnterCall ==
  \E c \in Callees(op, args) :
    /\ op' = c[1]
    /\ args' = c[2]
    /\ res' = Ok(res.val + 1)
    /\ UNCHANGED <<T, cache, file>>

NextCalls == EnterCall

SpecCalls == InitCalls /\ [][NextCalls]_vars

(***************************************************************************)
(* The rows as objects.  Every row generator of the repository is wrapped  *)
(* by functools.cache: the list it returns for n is kept and handed out    *)
(* again, to row(n) and to the generator's own calls of itself.  cache     *)
(* holds these lists by row index.                                         *)
(***************************************************************************)
\* a generator assigning into the row of n - 1 that it was handed
Assigned_Alias(f) == IF f = "stirlingcycleb" THEN "alias" ELSE "none"

\* how the body of the generator f makes the list it assigns into (row[k] =
\* ...): a concatenation, a comprehension, a copy or a repetition, each a
\* new list, or "none" when it assigns into no list; "alias" stands for the
\* list handed out by the cache for n - 1
Assigned(f) ==
  CASE f \in {"centralsetinv", "delannoyinv", "lucasinv", "motzkininv",
              "narayana2", "schroederinv", "stirlingcycleb"} -> "concat"
    [] f \in {"fallingfactorial", "risingfactorial"} -> "comprehension"
    [] f = "dyckpathsinv" -> "copy"
    [] f = "centralfactorial" -> "repeat"
    [] OTHER -> "none"

\* the cache c after the body of f(n) has built row and returned it: the
\* list is kept under n, and it is the list under n - 1 too when the body
\* assigned into that one
Store(f, c, n, r) ==
  LET hit == IF Assigned(f) = "alias" THEN {n - 1} \cap DOMAIN c ELSE {}
  IN  [m \in DOMAIN c \cup {n} |-> IF m = n \/ m \in hit THEN r ELSE c[m]]

RECURSIVE Fill(_, _, _), FillAll(_, _, _)
\* the cache c after the call f(n): a hit leaves it as it is, a miss runs
\* the body, which calls f for the rows it builds on
Fill(f, c, n) ==
  IF n \in DOMAIN c THEN c
  ELSE LET below == {x[2][1] : x \in {y \in Callees(f, <<n>>) : y[1] = f}}
       IN  Store(f, FillAll(f, c, below), n, Gen(<<f>>, n))

\* the cache c after the calls f(m) for the m in S, smallest first
FillAll(f, c, S) ==
  IF S = {} THEN c
  ELSE LET m == CHOOSE k \in S : \A j \in S : k <= j
       IN  FillAll(f, Fill(f, c, m), S \ {m})

\* what the method o makes of the list r that row(n) hands it: row returns
\* the list itself, the others build a new list from it
View(o, r) ==
  CASE o = "row" -> r
    [] o = "rev" -> Reversed(r)
    [] o = "acc" -> Accumulate(r)

\* the method o called with n: it reads the row through the cache
Through(o, n) ==
  /\ op' = o
  /\ args' = <<n>>
  /\ cache' = IF n < 0 THEN cache ELSE Fill(T.gen[1], cache, n)
  /\ res' = IF n < 0 THEN Raise("IndexError") ELSE Ok(View(o, cache'[n]))
  /\ UNCHANGED <<T, file>>

MemoRow == \E n \in GenArgs : Through("row", n)

MemoRev == \E n \in GenArgs : Through("rev", n)

MemoAcc == \E n \in GenArgs : Through("acc", n)

\* the trait Triangle: flat reads the rows 0..size - 1
MemoTriangle ==
  \E size \in 0..MaxGenN :
    /\ op' = "Triangle"
    /\ args' = <<size>>
    /\ cache' = FillAll(T.gen[1], cache, 0..(size - 1))
    /\ res' = Ok(Concat([n \in 1..size |-> SubSeq(cache'[n - 1], 1, n)]))
    /\ UNCHANGED <<T, file>>

InitMemo ==
  /\ T \in RepoTables
  /\ op = "init"
  /\ args = << >>
  /\ res = Ok(<< >>)
  /\ cache = << >>
  /\ file = << >>

NextMemo ==
  \/ MemoRow
  \/ MemoRev
  \/ MemoAcc
  \/ MemoTriangle

SpecMemo == InitMemo /\ [][NextMemo]_vars

(***************************************************************************)
(* The OEIS section of a table's source file (_tabldict.py).  The text of  *)
(* the file is a sequence of tokens, a token being a line end "\n" or the  *)
(* text of a line without its end; file.src is the source file of the      *)
(* table T and file.json the entry of T.id in data/AllTraits.json.  A      *)
(* dictionary is the sequence of its items <<name, anum>> in insertion     *)
(* order.                                                                  *)
(***************************************************************************)
\* line.startswith("''' OEIS") for the lines of the files considered
StartsWithMarker(line) == line \in {"''' OEIS", "''' OEIS (old)"}

\* the text up to the first line that starts with the marker, the whole
\* text when no line does
TruncateInfo(f) ==
  LET starts == {i \in 1..Len(f) : /\ i = 1 \/ f[i - 1] = "\n"
                                   /\ StartsWithMarker(f[i])}
  IN  IF starts = {} THEN f
      ELSE SubSeq(f, 1, (CHOOSE i \in starts : \A j \in starts : i <= j) - 1)

RECURSIVE SortedItems(_)
\* sorted(dict.items(), key=lambda item: item[1]): by anum, items with the
\* same anum in their order of insertion
SortedItems(d) ==
  IF d = << >> THEN << >>
  ELSE LET i == CHOOSE k \in 1..Len(d) :
                  /\ \A j \in 1..Len(d) : d[k][2] <= d[j][2]
                  /\ \A j \in 1..(k - 1) : d[j][2] # d[k][2]
       IN  <<d[i]>> \o SortedItems(SubSeq(d, 1, i - 1) \o SubSeq(d, i + 1, Len(d)))

\* the text of f after AddAnumsToSrcfile(name, d) with a dictionary d found
AddAnumsToSrcfile(f, name, d) ==
  LET items == SortedItems(d)
      line(it) == IF it[2] # 0
                  THEN "    " \o it[1] \o " -> https://oeis.org/A" \o ToString(it[2])
                  ELSE "    " \o it[1] \o " -> 0 "
      misses == Cardinality({i \in 1..Len(items) : items[i][2] = 0})
      hits == Len(items) - misses
      distincts == Cardinality({items[i][2] : i \in 1..Len(items)})
  IN  TruncateInfo(f)
        \o <<"\n", "\n", "''' OEIS", "\n">>
        \o Concat([i \in 1..Len(items) |-> <<line(items[i]), "\n">>])
        \o <<"\n", "    " \o name \o ": Distinct: " \o ToString(distincts)
                     \o ", Hits: " \o ToString(hits)
                     \o ", Misses: " \o ToString(misses)>>
        \o <<"\n", "'''", "\n">>

\* the dictionaries handed in: up to two traits with their A-numbers
Dicts ==
  LET Items == {"T_Triangle", "T_TablSum"} \X {0, 7, 12}
  IN  {<< >>} \cup {<<x>> : x \in Items}
        \cup {d \in Items \X Items : d[1][1] # d[2][1]}

\* source files: empty, without a line end at the end, with one, with an
\* OEIS section, with the marker inside a line
SrcFiles ==
  { << >>,
    <<"code">>,
    <<"code", "\n">>,
    <<"code", "\n", "''' OEIS (old)", "\n", "    T_Triangle -> 0 ", "\n", "'''", "\n">>,
    <<"# ''' OEIS", "\n">> }

CallAddAnumsToSrcfile ==
  \E dict \in Dicts :
    LET d == IF dict = << >> THEN file.json.dict ELSE dict
        KeyError == dict = << >> /\ ~file.json.found
    IN  /\ Len(TruncateInfo(file.src)) <= MaxPrefix
        /\ op' = "AddAnumsToSrcfile"
        /\ args' = <<T.id, dict>>
        /\ res' = IF KeyError THEN Raise("KeyError") ELSE Ok(<< >>)
        /\ file' = IF KeyError THEN file
                   ELSE [file EXCEPT !.src = AddAnumsToSrcfile(file.src, T.id, d)]
        /\ UNCHANGED <<T, cache>>

CallTruncateInfo ==
  /\ op' = "TruncateInfo"
  /\ args' = <<T.id>>
  /\ res' = Ok(<< >>)
  /\ file' = [file EXCEPT !.src = TruncateInfo(file.src)]
  /\ UNCHANGED <<T, cache>>

InitFile ==
  /\ T \in {t \in RepoTables : t.id \in {"StirlingCycleB", "FallingFactorial"}}
  /\ op = "init"
  /\ args = << >>
  /\ res = Ok(<< >>)
  /\ cache = << >>
  /\ file \in [src : SrcFiles,
                json : {[found |-> FALSE, dict |-> << >>],
                        [found |-> TRUE, dict |-> << >>],
                        [found |-> TRUE, dict |-> <<<<"T_AltSum", 7>>>>]}]

NextFile ==
  \/ CallAddAnumsToSrcfile
  \/ CallTruncateInfo

SpecFile == InitFile /\ [][NextFile]_vars

(***************************************************************************)
(* Notions the properties are stated with.                                 *)
(***************************************************************************)
\* the k x k identity matrix
Identity(k) == [i \in 1..k |-> [j \in 1..k |-> IF i = j THEN 1 ELSE 0]]

\* the rows of V padded with zeros to length k
Padded(V, k) ==
  [i \in 1..Len(V) |-> [j \in 1..k |-> IF j <= Len(V[i]) THEN V[i][j] ELSE 0]]

\* the product of the k x k matrices A and B
MatMul(A, B, k) ==
  [i \in 1..k |-> [j \in 1..k |-> SumSeq([m \in 1..k |-> A[i][m] * B[m][j]])]]

\* M, given by rows reaching at least to the diagonal, is invertible over the
\* integers: a triangular integer matrix is, exactly when its determinant, the
\* product of the diagonal, is 1 or -1
UnitDiagonal(M) == \A i \in 1..Len(M) : M[i][i] \in {1, -1}

\* the leading size x size matrix of t exists and has an integral inverse
IntegralInverse(t, size) ==
  /\ mat(t, size).exc = "none"
  /\ UnitDiagonal(mat(t, size).val)

\* the table as it was constructed
Fresh(t) == Table(t.gen, t.id, t.invid)

\* the table with its flag set
Declared(t) == [t EXCEPT !.invQ = TRUE]

\* C1 as stated: whenever the leading k x k matrix has an integral inverse,
\* k >= 1, mat(k) times the padded inv(k) is the identity
C1_Original ==
  (op = "inv" /\ args[1] >= 1 /\ IntegralInverse(T, args[1]))
    => /\ res.exc = "none"
       /\ Len(res.val) = args[1]
       /\ MatMul(mat(T, args[1]).val, Padded(res.val, args[1]), args[1])
            = Identity(args[1])

\* C1 amended: inv(k), k >= 1, called while invQ is true on a table whose
\* leading k x k matrix has an integral inverse, returns k rows, and mat(k)
\* times these rows padded with zeros is the identity
C1_RoundTrip ==
  [][(op' = "inv" /\ T.invQ /\ args'[1] >= 1 /\ IntegralInverse(T, args'[1]))
       => /\ res'.exc = "none"
          /\ Len(res'.val) = args'[1]
          /\ MatMul(mat(T, args'[1]).val, Padded(res'.val, args'[1]), args'[1])
               = Identity(args'[1])]_vars

C1_Witness ==
  /\ op = "inv"
  /\ args = <<MaxSize>>
  /\ T.invQ
  /\ T.gen[1] = "syn" /\ T.gen[2] = -1 /\ T.gen[3] = 1
  /\ res.val # << >>

\* C2: an inv call on a table declared invertible whose matrix has no integral
\* inverse returns [] and leaves invQ false; invQ never goes from false to
\* true; every inv call made while invQ is false returns []
C2_Permanent ==
  [][/\ (op' = "inv" /\ T.invQ /\ mat(T, args'[1]).exc = "none"
           /\ ~UnitDiagonal(mat(T, args'[1]).val))
          => (res' = Ok(<< >>) /\ ~T'.invQ)
     /\ ~T.invQ => ~T'.invQ
     /\ (op' = "inv" /\ ~T.invQ) => res' = Ok(<< >>)]_vars

\* a later inv call on a size whose matrix is invertible, after a failure
C2_Witness ==
  /\ op = "inv"
  /\ args = <<2>>
  /\ T.gen = <<"syn", 2, 1, 2, "ok">>
  /\ T.invid # ""
  /\ ~T.invQ
  /\ res = Ok(<< >>)

\* what the call named o with arguments a returns on the table t, for the
\* calls that do not go through self.invQ
Returned(t, o, a) ==
  CASE o = "row" -> row(t, a[1])
    [] o = "val" -> val(t, a[1], a[2])
    [] o = "call" -> call(t, a[1], a[2])
    [] o = "tab" -> tab(t, a[1])
    [] o = "mat" -> mat(t, a[1])
    [] o = "rev" -> rev(t, a[1])
    [] o = "alt" -> alt(t, a[1])
    [] o = "acc" -> acc(t, a[1])
    [] o = "sum" -> sum(t, a[1])
    [] o = "poly" -> poly(t, a[1], a[2])
    [] o = "flat" -> flat(t, a[1])
    [] o = "Triangle" -> Triangle(t, a[1])
    [] o = "invrev" -> invrev(t, a[1])

\* C3 as stated, for inv(size) and revinv(size) with size >= 1: the call
\* returns what it returns on the table as constructed, whatever was called
\* before, and leaves the table as it was constructed
C3_Original ==
  (op \in {"inv", "revinv"} /\ args[1] >= 1)
    => /\ T = Fresh(T)
       /\ op = "inv" => res = inv(Fresh(T), args[1]).res
       /\ op = "revinv" => res = revinv(Fresh(T), args[1]).res

\* C3 amended: every call other than inv and revinv returns what it returns
\* on the table as constructed and changes no field of the table; inv and
\* revinv change no field but invQ, which they only ever set from true to
\* false, and they return [] whenever invQ is false at the call, and what
\* they return on a table declared invertible otherwise
C3_Deterministic ==
  [][/\ op' \notin {"inv", "revinv"}
          => (T' = T /\ res' = Returned(Fresh(T), op', args'))
     /\ op' \in {"inv", "revinv"}
          => /\ T' = [T EXCEPT !.invQ = T'.invQ]
             /\ T'.invQ => T.invQ
             /\ ~T.invQ => res' = Ok(<< >>)
             /\ (T.invQ /\ op' = "inv") => res' = inv(Declared(Fresh(T)), args'[1]).res
             /\ (T.invQ /\ op' = "revinv")
                  => res' = revinv(Declared(Fresh(T)), args'[1]).res]_vars

\* a call that does not read the flag, made after inv has downgraded it
C3_Witness ==
  /\ op = "invrev"
  /\ args = <<MaxSize>>
  /\ res.val # << >>
  /\ T.invid # ""
  /\ ~T.invQ

\* C4: val(n, k) and T(n, k) raise IndexError when k > n or k < 0 or n < 0,
\* and when row(n) has its n + 1 entries they raise in no other case and
\* return row(n)[k]
C4_IndexError ==
  op \in {"val", "call"} =>
    LET n == args[1]
        k == args[2]
    IN  /\ (k > n \/ k < 0 \/ n < 0) => res.exc = "IndexError"
        /\ (0 <= k /\ k <= n /\ Len(Gen(T.gen, n)) = n + 1)
             => res = Ok(Gen(T.gen, n)[k + 1])

\* a column index just right of the triangle and one just left of it
C4_Witness ==
  /\ op = "val"
  /\ args \in {<<2, 3>>, <<2, -1>>}
  /\ res.exc = "IndexError"
  /\ T.gen[1] = "schroederinv"

\* the last call read a row whose length is not its index plus one
ReadBadRow ==
  \/ /\ op \in {"rev", "alt", "acc", "sum", "poly"}
     /\ args[1] >= 0
     /\ Len(Gen(T.gen, args[1])) # args[1] + 1
  \/ /\ op \in {"tab", "mat", "flat", "Triangle"}
     /\ ~ValidRows(T, args[1])

\* C5 as stated: every call that reads a row whose length is not n + 1 ends
\* with an exception
C5_FailsLoudly == ReadBadRow => res.exc # "none"

\* the generator at the bottom of the expression g
RECURSIVE BaseOf(_)
BaseOf(g) == IF IsBase(g) THEN g ELSE BaseOf(g[2])

\* the base rows that the rows 0..MaxN of a derived table are cut from
BaseValid(g) ==
  \A n \in 0..(MaxN + 2 * MaxOff) : Len(Gen(BaseOf(g), n)) = n + 1

\* C6 as stated: over a base table whose rows have length n + 1, row n of
\* RevTable(T), AltTable(T) and SubTable(T, N, K), 0 <= K <= N, has length
\* n + 1
C6_DerivedValid ==
  (BaseValid(T.gen) /\ ~IsBase(T.gen) /\ IsBase(T.gen[2]))
    => \A n \in 0..MaxN : Len(Gen(T.gen, n)) = n + 1

\* C7 as stated: off(N, K) followed by off(N2, K2) yields the rows of
\* off(N + N2, K + K2), for roots with 0 <= K <= N and 0 <= K2 <= N2
C7_OffsetComposition ==
  (T.gen[1] = "off" /\ T.gen[2][1] = "off")
    => \A n \in 0..MaxN :
         Gen(T.gen, n)
           = Gen(<<"off", T.gen[2][2], T.gen[2][3] + T.gen[3],
                   T.gen[2][4] + T.gen[4]>>, n)

\* the rows of the table with every row reversed, n < size
ReversedRows(t, size) == [n \in 1..size |-> Reversed(Gen(t.gen, n - 1))]

\* the rows V are the integer inverse of the lower triangular rows M
IsInverse(M, V) ==
  LET k == Len(M)
  IN  /\ Len(V) = k
      /\ MatMul(Padded(M, k), Padded(V, k), k) = Identity(k)

\* what the inverter must return for the lower triangular rows M: the empty
\* result when a diagonal entry is not 1 or -1 (0, or a non-integral
\* inverse), the inverse otherwise
Inverts(M, V) == IF UnitDiagonal(M) THEN IsInverse(M, V) ELSE V = << >>

\* C8: inv(size), called while invQ is true on a table whose rows reach the
\* diagonal, and invrev(size) raise no exception; they return the integer
\* inverse of the matrix handed to the inverter when it has one, and []
\* when a diagonal entry is 0 or the exact inverse is not integral
C8_InverterTotal ==
  [][/\ (op' = "inv" /\ T.invQ /\ mat(T, args'[1]).exc = "none")
          => /\ res'.exc = "none"
             /\ Inverts(LowerRows(T, args'[1]).val, res'.val)
     /\ op' = "invrev"
          => /\ res'.exc = "none"
             /\ Inverts(ReversedRows(T, args'[1]), res'.val)]_vars

\* a matrix with a zero on the diagonal, handed to the inverter by inv
C8_Witness ==
  /\ op = "inv"
  /\ args = <<MaxSize>>
  /\ T.gen = <<"syn", 0, 1, 1, "ok">>
  /\ T.invid # ""
  /\ res = Ok(<< >>)

\* C9 as stated: invrev(size) is RevTable(T).inv(size)
C9_Original ==
  op = "invrev" => res = inv(RevTable(T), args[1]).res

\* C9 amended: invrev(size) is what inv(size) returns on RevTable(T) when
\* that table is declared invertible (RevTable(T) itself has no inverse id,
\* and its inv returns []); revinv(size) is T.inv(size) with every row
\* reversed, [] exactly when T.inv(size) is [], and raises when it raises
C9_Compositions ==
  [][/\ op' = "invrev" => res' = inv(Declared(RevTable(T)), args'[1]).res
     /\ op' = "revinv"
          => LET V == inv(T, args'[1]).res
             IN  /\ res'.exc = V.exc
                 /\ V.exc = "none"
                      => /\ Len(res'.val) = Len(V.val)
                         /\ \A n \in 1..Len(V.val) :
                              res'.val[n] = Reversed(V.val[n])]_vars

\* the inverse of the reversed rows exists, and the rows are not palindromes
C9_Witness ==
  /\ op = "invrev"
  /\ args = <<MaxSize>>
  /\ T.gen[1] = "schroederinv" \/ (T.gen[1] = "syn" /\ T.gen[3] = 1)
  /\ res.val # << >>

\* C10: on a table whose rows n < size have length n + 1, flat(size) and the
\* trait Triangle return the concatenation of row(0), ..., row(size - 1)
C10_FlatIsConcat ==
  (op \in {"flat", "Triangle"} /\ ValidRows(T, args[1]))
    => res = Ok(Concat([n \in 1..args[1] |-> row(T, n - 1).val]))

C10_Witness ==
  /\ op = "Triangle"
  /\ args = <<MaxSize>>
  /\ T.gen[1] = "schroederinv"
  /\ Len(res.val) = (MaxSize * (MaxSize + 1)) \div 2

\* C16: for n >= 0, rev(n) read backwards is row(n), and the rows of
\* RevTable(RevTable(T)) are the rows of T
C16_RevInvolution ==
  /\ (op = "rev" /\ args[1] >= 0)
       => LET r == Gen(T.gen, args[1])
          IN  /\ res.exc = "none"
              /\ Len(res.val) = Len(r)
              /\ \A i \in 1..Len(r) : res.val[Len(r) + 1 - i] = r[i]
  /\ (T.gen[1] = "rev" /\ T.gen[2][1] = "rev")
       => \A n \in 0..MaxN : row(T, n) = Ok(Gen(T.gen[2][2], n))

\* a row, not a palindrome, read from the table reversed twice
C16_Witness ==
  /\ T.gen = <<"rev", <<"rev", <<"schroederinv">>>>>>
  /\ op = "row"
  /\ args = <<MaxN>>
  /\ res.val # Reversed(res.val)

(***************************************************************************)
(* Properties of the rows of the repository's tables (SpecRows).           *)
(***************************************************************************)
\* C11: for every row generator of the repository and every n in 0..50, the
\* row returned for n has exactly n + 1 entries
C11_RowLength ==
  (op = "row" /\ Fresh(T) \in RepoTables /\ args[1] \in 0..50)
    => /\ res.exc = "none"
       /\ Len(res.val) = args[1] + 1

\* the generator that starts its comprehension at k = -1
C11_Witness ==
  /\ op = "row"
  /\ T.id = "FallingFactorial"
  /\ args = <<MaxGenN>>
  /\ Len(res.val) = MaxGenN + 1

\* C13 as stated: inv(4) of the binomial triangle, declared invertible, is
\* [[1], [0, 1], [0, -2, 1], [0, 3, -6, 1]]
C13_Original ==
  (op = "inv" /\ args = <<4>> /\ T = Binomial)
    => res = Ok(<<(<<1>>), <<0, 1>>, <<0, -2, 1>>, <<0, 3, -6, 1>>>>)

\* C13 amended: inv(4) of the binomial triangle, called while its flag invQ
\* is true, returns [[1], [-1, 1], [1, -2, 1], [-1, 3, -3, 1]], the rows 0..3
\* of binomialinv, and leaves the table as it is
C13_BinomialInverse ==
  [][(op' = "inv" /\ args' = <<4>> /\ T = Binomial)
       => /\ res' = Ok(<<(<<1>>), <<-1, 1>>, <<1, -2, 1>>, <<-1, 3, -3, 1>>>>)
          /\ res'.val = [n \in 1..4 |-> binomialinv(n - 1)]
          /\ T' = T]_vars

C13_Witness ==
  /\ op = "inv"
  /\ args = <<4>>
  /\ T = Binomial
  /\ Len(res.val) = 4
  /\ res.val[4] = <<-1, 3, -3, 1>>

\* C14 as stated: antidiag(4) of the binomial triangle is [1, 4, 1]
C14_Original ==
  (op = "antidiag" /\ args = <<4>> /\ T.gen = <<"binomial">>)
    => res = Ok(<<1, 4, 1>>)

\* C14 amended: antidiag(4) of the binomial triangle is
\* [val(4, 0), val(3, 1), val(2, 2)], which is [1, 3, 1]
C14_Antidiagonal ==
  (op = "antidiag" /\ args = <<4>> /\ T.gen = <<"binomial">>)
    => /\ res = Ok(<<val(T, 4, 0).val, val(T, 3, 1).val, val(T, 2, 2).val>>)
       /\ res = Ok(<<1, 3, 1>>)

C14_Witness ==
  /\ op = "antidiag"
  /\ args = <<4>>
  /\ T.gen = <<"binomial">>
  /\ res.exc = "none"
  /\ Len(res.val) = 3

\* C15: der(0) is [0]; for n >= 1, on a row with its n + 1 entries, der(n)
\* has n entries and its entry j, 0 <= j < n, is (j + 1) * row(n)[j + 1]
C15_Derivative ==
  (op = "der" /\ args[1] >= 0)
    => LET n == args[1]
           r == Gen(T.gen, n)
       IN  /\ n = 0 => res = Ok(<<0>>)
           /\ (n >= 1 /\ Len(r) = n + 1)
                => /\ res.exc = "none"
                   /\ Len(res.val) = n
                   /\ \A j \in 0..(n - 1) : res.val[j + 1] = (j + 1) * r[j + 2]

C15_Witness ==
  /\ op = "der"
  /\ args = <<MaxGenN>>
  /\ T.id = "SchroederInv"
  /\ Len(res.val) = MaxGenN
  /\ res.val[MaxGenN] = MaxGenN

\* C17: for n >= 0, the running prefix sums of diff(n) are row(n)
C17_AccInvertsDiff ==
  (op = "diff" /\ args[1] >= 0)
    => /\ res.exc = "none"
       /\ Accumulate(res.val) = Gen(T.gen, args[1])

C17_Witness ==
  /\ op = "diff"
  /\ args = <<MaxGenN>>
  /\ T.id = "DelannoyInv"
  /\ res.exc = "none"
  /\ res.val # Gen(T.gen, MaxGenN)

RECURSIVE Horner(_, _)
\* the value at x of the polynomial with coefficients r, lowest power first
Horner(r, x) == IF r = << >> THEN 0 ELSE r[1] + x * Horner(Tail(r), x)

\* C18: poly(n, x) is the value at x of the polynomial whose coefficient of
\* x^j is row(n)[j] (the constant term counts for x = 0 too), poly(n, 1) is
\* sum(n), and the binomial triangle has row(4) = [1, 4, 6, 4, 1], sum(4) = 16
\* and poly(4, 1) = 16
C18_Polynomial ==
  /\ (op = "poly" /\ args[1] >= 0)
       => /\ res = Ok(Horner(Gen(T.gen, args[1]), args[2]))
          /\ (args[2] = 0 /\ Gen(T.gen, args[1]) # << >>)
               => res.val = Gen(T.gen, args[1])[1]
          /\ args[2] = 1 => res = sum(T, args[1])
  /\ (T.gen = <<"binomial">> /\ args \in {<<4>>, <<4, 1>>})
       => /\ op = "row" => res = Ok(<<1, 4, 6, 4, 1>>)
          /\ op = "sum" => res = Ok(16)
          /\ op = "poly" => res = Ok(16)

C18_Witness ==
  /\ op = "poly"
  /\ args = <<4, 1>>
  /\ T.gen = <<"binomial">>
  /\ res = Ok(16)

\* C20: for n >= 0, on rows 0..n with their entries, antidiag(n) raises no
\* exception and is [T(n - k, k) : k = 0..floor(n / 2)]: it has
\* floor(n / 2) + 1 entries, each read inside the triangle (0 <= k <= n - k)
C20_Antidiagonal ==
  (op = "antidiag" /\ args[1] >= 0 /\ ValidRows(T, args[1] + 1))
    => LET n == args[1]
       IN  /\ res.exc = "none"
           /\ Len(res.val) = (n \div 2) + 1
           /\ \A k \in 0..(n \div 2) :
                /\ k <= n - k
                /\ Ok(res.val[k + 1]) = call(T, n - k, k)

C20_Witness ==
  /\ op = "antidiag"
  /\ args = <<MaxGenN>>
  /\ T.id = "SchroederInv"
  /\ Len(res.val) = (MaxGenN \div 2) + 1

(***************************************************************************)
(* Properties of the traits (SpecTraits).                                  *)
(***************************************************************************)
\* C12: every Rev-prefixed trait of the catalog returns what the forward
\* trait of the same name returns on RevTable(t), for the same size
C12_RevTraits ==
  \A name \in TraitNames :
    op = "Rev_" \o name => res = Trait(name, RevTable(T), args[1])

\* a trait that reverses the rows itself, on rows that are not palindromes
C12_Witness ==
  /\ op = "Rev_PosHalf"
  /\ args = <<MaxSize>>
  /\ T.id = "SchroederInv"
  /\ res.exc = "none"
  /\ res # Trait("PosHalf", T, MaxSize)

(***************************************************************************)
(* Termination of the row generators (SpecCalls).                          *)
(***************************************************************************)
\* the size of the arguments of a frame: the row index n, the pair (n, k)
\* of a helper weighed so that each of its calls is smaller, one more for a
\* generator that hands its n to a helper; 0 for a base case of _clp, which
\* is reached with n below 0 too
Rank(f, a) ==
  CASE f = "_clp" -> IF clp_Calls(a[1], a[2]) = {} THEN 0 ELSE a[1] + 1
    [] f = "_distlattices" -> a[1] + a[2]
    [] f = "_T" -> 2 * a[1]
    [] f = "_h" -> 2 * a[1] + 1
    [] f = "polyatreeacc" -> 2 * a[1] + 3
    [] f \in {"compositionlp", "distlattices", "binomialinv", "rencontresinv",
              "sidi"} -> a[1] + 1
    [] OTHER -> a[1]

\* C19: every call that a generator of the repository or one of its helpers
\* makes, from a row index n >= 0, has strictly smaller arguments (a smaller
\* row index, a smaller pair (n, k)) of a size that is never below 0, so
\* the calls reach a base case and the generator terminates
C19_Terminates ==
  [][/\ Rank(op', args') < Rank(op, args)
     /\ Rank(op', args') >= 0]_vars

\* a base case of _clp reached below the triangle, with a negative n
C19_Witness ==
  /\ T.id = "CompositionLP"
  /\ op = "_clp"
  /\ args[1] < 0
  /\ Callees(op, args) = {}

(***************************************************************************)
(* Properties of the inverse of a table and of its flag invQ.              *)
(***************************************************************************)
\* C21: a table without an inverse id, a table built by RevTable, AltTable,
\* SubTable or on off(1, 1) among them, has invQ false and returns [] from
\* inv(size) for every size, without an exception from a row it would have
\* to read and without a change of the table, whatever its matrix
C21_NoInverseId ==
  [][(op' = "inv" /\ T.invid = "")
       => /\ ~T.invQ
          /\ res' = Ok(<< >>)
          /\ T' = T]_vars

\* the table built on off(1, 1) of SchroederInv: its matrix, the one inv11
\* inverts, has an integral inverse
C21_Witness ==
  /\ op = "inv"
  /\ args = <<MaxSize>>
  /\ T.gen = <<"off", <<"schroederinv">>, 1, 1>>
  /\ T.invid = ""
  /\ inv11(Table(<<"schroederinv">>, "SchroederInv", ""), MaxSize).val # << >>
  /\ IntegralInverse(T, MaxSize)
  /\ res = Ok(<< >>)

\* the diagonal entries T(n, n), n < size, are all 1
OnesOnDiagonal(t, size) == \A n \in 0..(size - 1) : call(t, n, n) = Ok(1)

\* C22 as stated: an inv call takes invQ from true to false only when the
\* leading size x size matrix has no integral inverse, and for every size
\* >= 0 an inv call on a table whose diagonal entries are all 1 leaves invQ
\* true
C22_DowngradeOnlyOnFailure ==
  [][op' = "inv"
       => /\ (T.invQ /\ ~T'.invQ) => ~IntegralInverse(T, args'[1])
          /\ (T.invQ /\ OnesOnDiagonal(T, args'[1])) => T'.invQ]_vars

\* what the inverse named o returns on the table t
FlagFree(t, o, size) ==
  CASE o = "invrev" -> invrev(t, size)
    [] o = "inv11" -> inv11(t, size)
    [] o = "revinv11" -> revinv11(t, size)
    [] o = "invrev11" -> invrev11(t, size)

\* C23: invrev, inv11, invrev11 and revinv11 return what they return on the
\* table as constructed and on the table with its flag the other way round,
\* whatever inv calls were made before, and leave every field of the table,
\* invQ among them, as it is
C23_FlagFree ==
  [][op' \in {"invrev", "inv11", "revinv11", "invrev11"}
       => /\ T' = T
          /\ res' = FlagFree(Fresh(T), op', args'[1])
          /\ res' = FlagFree([T EXCEPT !.invQ = ~T.invQ], op', args'[1])]_vars

\* inv11 finds the inverse after inv has taken the flag down
C23_Witness ==
  /\ op = "inv11"
  /\ args = <<MaxSize>>
  /\ T.invid # ""
  /\ ~T.invQ
  /\ res.exc = "none"
  /\ Len(res.val) = MaxSize

\* C24 as stated: a table of the repository with an inverse id has
\* T(n, n) = 1 for every n, returns a non-empty inverse from inv(size) for
\* every size >= 1, and its flag invQ is never taken down
C24_DeclaredInvertible ==
  (Fresh(T) \in RepoTables /\ T.invid # "")
    => /\ OnesOnDiagonal(T, MaxGenN + 1)
       /\ T.invQ
       /\ (op = "inv" /\ args[1] >= 1)
            => (res.exc = "none" /\ Len(res.val) = args[1])

(***************************************************************************)
(* Properties of single traits.                                            *)
(***************************************************************************)
\* the sum over k in 0..n of the sum over j in 0..k of T(n, n - j)
SumOfReversedPrefixes(t, n) ==
  SumSeq([k \in 1..(n + 1) |->
            SumSeq([j \in 1..k |-> call(t, n, n - (j - 1)).val])])

\* C26 as stated: on a table whose rows n < size have their n + 1 entries,
\* the trait RevAccRevSum returns for each n < size the sum over k in 0..n
\* of the sum over j in 0..k of T(n, n - j)
C26_CatalogFormula ==
  (op = "Rev_AccRevSum" /\ ValidRows(T, args[1]))
    => res = Ok([n \in 1..args[1] |-> SumOfReversedPrefixes(T, n - 1)])

\* C27: on a table whose rows n < size have their n + 1 entries,
\* AccRevSum(T, size) and TransNat1(T, size) are the same list: entry n of
\* both is the sum over k of T(n, k) * (k + 1)
C27_AccRevSumIsTransNat1 ==
  (op \in {"AccRevSum", "TransNat1"} /\ ValidRows(T, args[1]))
    => /\ res = Trait("AccRevSum", T, args[1])
       /\ res = Trait("TransNat1", T, args[1])
       /\ res = Ok([n \in 1..args[1] |->
                     SumSeq([k \in 1..n |-> Gen(T.gen, n - 1)[k] * k])])

\* rows that are not palindromes, summed both ways
C27_Witness ==
  /\ op = "AccRevSum"
  /\ args = <<MaxSize>>
  /\ T.id = "SchroederInv"
  /\ res.exc = "none"
  /\ res # RevTrait("AccRevSum", T, MaxSize)
  /\ res # Trait("TransNat0", T, MaxSize)

(***************************************************************************)
(* The closed forms of four of the repository's triangles.                 *)
(***************************************************************************)
RECURSIVE Factorial(_)
\* n!
Factorial(n) == IF n = 0 THEN 1 ELSE n * Factorial(n - 1)

RECURSIVE Choose(_, _)
\* the binomial coefficient of m over k, k >= 0, which is 1 for k = 0
Choose(m, k) ==
  IF k = 0 THEN 1
  ELSE IF m < k THEN 0
  ELSE (m * Choose(m - 1, k - 1)) \div k

RECURSIVE Rising(_, _)
\* n (n + 1) ... (n + k - 1)
Rising(n, k) == IF k = 0 THEN 1 ELSE Rising(n, k - 1) * (n + k - 1)

\* C28: for 0 <= k <= n, fallingfactorial(n)[k] = n! / (n - k)!,
\* powers(n)[k] = k^(n - k) with 0^0 = 1, risingfactorial(n)[k] =
\* k! * binomial(n + k - 1, k) = n (n + 1) ... (n + k - 1), and
\* dyckpathsinv(n)[k] = binomial(n + k, 2 k)
C28_ClosedForms ==
  (op = "row" /\ args[1] >= 0)
    => LET n == args[1]
           Row(f(_)) == Ok([i \in 1..(n + 1) |-> f(i - 1)])
           Falling(k) == Factorial(n) \div Factorial(n - k)
           Power(k) == Pow(k, n - k)
           RisingA(k) == Factorial(k) * Choose(n + k - 1, k)
           RisingB(k) == Rising(n, k)
           Dyck(k) == Choose(n + k, 2 * k)
       IN  /\ T.gen = <<"fallingfactorial">> => res = Row(Falling)
           /\ T.gen = <<"powers">> => res = Row(Power)
           /\ T.gen = <<"risingfactorial">> => (res = Row(RisingA) /\ res = Row(RisingB))
           /\ T.gen = <<"dyckpathsinv">> => res = Row(Dyck)

C28_Witness ==
  /\ op = "row"
  /\ args = <<MaxGenN>>
  /\ T.gen = <<"risingfactorial">>
  /\ res.exc = "none"
  /\ res.val[MaxGenN + 1] = Rising(MaxGenN, MaxGenN)
  /\ res.val[MaxGenN + 1] > Factorial(MaxGenN)

\* C30 as stated: dotproduct(vec, tor) returns the sum of the products of
\* corresponding entries, and raises ValueError when the two vectors are not
\* of the same length
C30_DotProduct ==
  op = "dotproduct"
    => LET vec == args[1]
           tor == args[2]
       IN  IF Len(vec) = Len(tor)
           THEN res = Ok(SumSeq([i \in 1..Len(vec) |-> vec[i] * tor[i]]))
           ELSE res.exc = "ValueError"

(***************************************************************************)
(* Properties of the rows as objects (SpecMemo).                           *)
(***************************************************************************)
\* C25: a list that a generator has returned is not modified by a method of
\* Table, a trait or a later run of the generator: the cache keeps every row
\* with its values, and row(n) returns the values it held after the first
\* call for n
C25_RowsKept ==
  [][/\ \A n \in DOMAIN cache : n \in DOMAIN cache' /\ cache'[n] = cache[n]
     /\ (op' = "row" /\ args'[1] >= 0)
          => /\ res' = Ok(cache'[args'[1]])
             /\ args'[1] \in DOMAIN cache => res' = Ok(cache[args'[1]])]_vars

\* a row read again after the generator has built the next row on it
C25_Witness ==
  /\ op = "row"
  /\ args = <<MaxGenN - 1>>
  /\ T.id = "StirlingCycleB"
  /\ MaxGenN \in DOMAIN cache
  /\ res = Ok(stirlingcycleb(MaxGenN - 1))

(***************************************************************************)
(* Properties of the OEIS section of a source file (SpecFile).             *)
(***************************************************************************)
\* C29: AddAnumsToSrcfile is idempotent on the source file: a call that
\* follows a call with the same dictionary leaves the file as it was, and
\* the text before the OEIS section stays at the head of the file
C29_Idempotent ==
  [][(op' = "AddAnumsToSrcfile" /\ res'.exc = "none")
       => /\ SubSeq(file'.src, 1, Len(TruncateInfo(file.src))) = TruncateInfo(file.src)
          /\ (op = "AddAnumsToSrcfile" /\ args = args') => file' = file]_vars

====
